---- MODULE Spec2Model ----
(***************************************************************************)
(* Per-pixel ray evaluation of the black hole fragment shaders.            *)
(*                                                                         *)
(* Two shader variants are modelled:                                       *)
(*   "integrated"  src/unnamed/part_000 lines 1-253  (bending inside the   *)
(*                 march loop),                                            *)
(*   "prebend"     src/README.md lines 80-289        (one bend before the  *)
(*                 march).                                                 *)
(*                                                                         *)
(* GLSL floats are modelled in fixed point.  Unless a name says otherwise  *)
(* a scalar is an integer count of 1/1000 ("milli"); a product of two      *)
(* milli values that is not rescaled counts 1/1000000 ("micro").  The      *)
(* impact parameters and the rotation-axis lengths are kept in micro so    *)
(* that the source's 1e-6 guards are exactly one unit.                     *)
(***************************************************************************)
EXTENDS Integers, Sequences, FiniteSets, TLC

\* ---------------------------------------------------------------------
\* Fixed-point arithmetic standing for the GLSL float built-ins
\* ---------------------------------------------------------------------
Q == 1000
QQ == 1000000

\* the value of a float that is not a number
NaN == -2000000000
NaN3 == <<NaN, NaN, NaN>>

Abs(x) == IF x < 0 THEN -x ELSE x
Max(a, b) == IF a < b THEN b ELSE a
Min(a, b) == IF b < a THEN b ELSE a
Clamp(x, lo, hi) == Min(Max(x, lo), hi)

\* a / b rounded to the nearest integer, b > 0
DivR(a, b) == (a + (b \div 2)) \div b
\* a / b truncated toward zero, b > 0
SDiv(a, b) == IF a < 0 THEN -((-a) \div b) ELSE a \div b
\* a * b / c for a, b >= 0 and c > 0 without leaving 32 bits
MulDiv(a, b, c) ==
    IF a <= 2000000000 \div Max(b, 1)
    THEN DivR(a * b, c)
    ELSE (a \div c) * b + DivR((a % c) * b, c)

RECURSIVE SqrtIter(_, _, _)
SqrtIter(n, lo, hi) ==
    IF lo >= hi THEN lo
    ELSE LET mid == (lo + hi + 1) \div 2
         IN  IF mid * mid <= n THEN SqrtIter(n, mid, hi)
                               ELSE SqrtIter(n, lo, mid - 1)
\* floor of the square root, 0 <= n < 2^31
ISqrt(n) == SqrtIter(n, 0, 46340)

Vec3(x, y, z) == <<x, y, z>>
VAdd(a, b) == <<a[1] + b[1], a[2] + b[2], a[3] + b[3]>>
\* v * s with s in milli
VScale(v, s) == <<DivR(v[1] * s, Q), DivR(v[2] * s, Q), DivR(v[3] * s, Q)>>
MaxAbs3(v) == Max(Abs(v[1]), Max(Abs(v[2]), Abs(v[3])))
SumSq(v) == v[1] * v[1] + v[2] * v[2] + v[3] * v[3]

\* dot(a, b), not rescaled
Dot(a, b) == a[1] * b[1] + a[2] * b[2] + a[3] * b[3]
\* cross(a, b), not rescaled
Cross(a, b) ==
    <<a[2] * b[3] - a[3] * b[2],
      a[3] * b[1] - a[1] * b[3],
      a[1] * b[2] - a[2] * b[1]>>

\* length(v) in the unit of v; large vectors are scaled down before squaring
Length(v) ==
    LET k == MaxAbs3(v) \div 26000 + 1
    IN  k * ISqrt(SumSq(<<Abs(v[1]) \div k, Abs(v[2]) \div k, Abs(v[3]) \div k>>))

\* v / length(v) in milli, for a vector v # 0 in any unit
UnitOf(v) ==
    LET m == MaxAbs3(v)
        w == IF m > 20000
             THEN LET k == m \div 20000 + 1
                  IN  <<SDiv(v[1], k), SDiv(v[2], k), SDiv(v[3], k)>>
             ELSE LET f == 20000 \div m
                  IN  <<v[1] * f, v[2] * f, v[3] * f>>
        len == ISqrt(SumSq(w))
    IN  <<DivR(w[1] * Q, len), DivR(w[2] * Q, len), DivR(w[3] * Q, len)>>

\* --- sin / cos: angle in milli-radian, result in milli -------------------
PI_MILLI == 3142
TWO_PI_MILLI == 6283
HALF_PI_MILLI == 1571
TRIG == 10000

\* Taylor series on [-pi/2, pi/2], argument and result in 1/TRIG
SinSeries(x) ==
    LET x2 == DivR(x * x, TRIG)
        t3 == DivR(x * x2, 6 * TRIG)
        t5 == DivR(t3 * x2, 20 * TRIG)
        t7 == DivR(t5 * x2, 42 * TRIG)
        t9 == DivR(t7 * x2, 72 * TRIG)
    IN  x - t3 + t5 - t7 + t9
CosSeries(x) ==
    LET x2 == DivR(x * x, TRIG)
        t2 == DivR(x2, 2)
        t4 == DivR(t2 * x2, 12 * TRIG)
        t6 == DivR(t4 * x2, 30 * TRIG)
        t8 == DivR(t6 * x2, 56 * TRIG)
        t10 == DivR(t8 * x2, 90 * TRIG)
    IN  TRIG - t2 + t4 - t6 + t8 - t10

\* the angle reduced to (-pi, pi]
ReduceAngle(a) ==
    LET r == a % TWO_PI_MILLI
    IN  IF r > PI_MILLI THEN r - TWO_PI_MILLI ELSE r

Sin(a) ==
    LET r == ReduceAngle(a)
        f == IF r > HALF_PI_MILLI THEN PI_MILLI - r
             ELSE IF r < -HALF_PI_MILLI THEN -PI_MILLI - r
             ELSE r
    IN  Clamp(DivR(SinSeries(f * 10), 10), -Q, Q)
Cos(a) ==
    LET r == Abs(ReduceAngle(a))
    IN  IF r > HALF_PI_MILLI
        THEN -Clamp(DivR(CosSeries((PI_MILLI - r) * 10), 10), 0, Q)
        ELSE Clamp(DivR(CosSeries(r * 10), 10), 0, Q)

\* --- atan: argument in milli (>= 0), result in milli-radian ---------------
\* atan(y) = 2 atan(y / (1 + sqrt(1 + y^2))), twice, then the Taylor series
AtanHalve(y) == DivR(y * TRIG, TRIG + ISqrt(TRIG * TRIG + y * y))
AtanSeries(y) ==
    LET y2 == DivR(y * y, TRIG)
        t3 == DivR(y * y2, 3 * TRIG)
        t5 == DivR(DivR(y * y2, TRIG) * y2, 5 * TRIG)
    IN  DivR(4 * (y - t3 + t5), 10)
AtanUnit(x) == AtanSeries(AtanHalve(AtanHalve(x * 10)))
Atan(x) ==
    IF x <= Q THEN AtanUnit(x)
    ELSE HALF_PI_MILLI - AtanUnit(DivR(QQ, x))

\* atan(y, x) in milli-radian, (x, y) # (0, 0), both in one unit
\* atan(ay / ax) for ax, ay >= 0
AtanRatio(ay, ax) ==
    IF ax >= ay THEN Atan(MulDiv(ay, Q, ax))
    ELSE HALF_PI_MILLI - Atan(MulDiv(ax, Q, ay))
\* the first-quadrant angle base moved to the quadrant of (x, y)
AtanQuadrant(y, x, base) ==
    IF y >= 0 THEN (IF x >= 0 THEN base ELSE PI_MILLI - base)
    ELSE -(IF x >= 0 THEN base ELSE PI_MILLI - base)
Atan2(y, x) == AtanQuadrant(y, x, AtanRatio(Abs(y), Abs(x)))
\* asin(y), y in milli within [-1000, 1000]
Asin(y) == Atan2(y, ISqrt(QQ - y * y))

\* --- exp(-x): x >= 0 in milli ------------------------------------------
ExpIntMicro == <<1000000, 367879, 135335, 49787, 18316, 6738, 2479, 912,
                 335, 123, 45, 17, 6, 2, 1>>
\* exp(-f) in milli for 0 <= f < 1000
ExpFrac(f) ==
    LET h6 == TRIG - DivR(f * 10, 6)
        h5 == TRIG - DivR(DivR(f * 10, 5) * h6, TRIG)
        h4 == TRIG - DivR(DivR(f * 10, 4) * h5, TRIG)
        h3 == TRIG - DivR(DivR(f * 10, 3) * h4, TRIG)
        h2 == TRIG - DivR(DivR(f * 10, 2) * h3, TRIG)
        h1 == TRIG - DivR((f * 10) * h2, TRIG)
    IN  DivR(h1, 10)
\* exp(-x) in micro
ExpNegMicro(x) ==
    IF x \div Q >= Len(ExpIntMicro) THEN 0
    ELSE DivR(ExpIntMicro[x \div Q + 1] * ExpFrac(x % Q), Q)
\* exp(-x) in milli
ExpNeg(x) == DivR(ExpNegMicro(x), Q)

\* --- small positive floats: the value m * exp(-e), m in micro ----------------
\* a float keeps its own exponent, so a product of exponentials stays positive
\* down to the smallest normal float32, about exp(-87)
FLT_EXP_MIN == 87
FloatZero == [m |-> 0, e |-> 0]
\* exp(-x) as a float, x >= 0 in milli
ExpNegFloat(x) ==
    IF x \div Q > FLT_EXP_MIN THEN FloatZero
    ELSE [m |-> ExpFrac(x % Q) * Q, e |-> x \div Q]
\* a * b
FloatMul(a, b) ==
    IF a.m = 0 \/ b.m = 0 \/ a.e + b.e > FLT_EXP_MIN THEN FloatZero
    ELSE [m |-> DivR(a.m, Q) * DivR(b.m, Q), e |-> a.e + b.e]
\* the mantissa of w brought to the exponent e <= w.e, as an addition aligns it
FloatAt(w, e) ==
    IF w.m = 0 \/ w.e - e >= Len(ExpIntMicro) THEN 0
    ELSE DivR(DivR(w.m, Q) * ExpIntMicro[w.e - e + 1], Q)

\* ---------------------------------------------------------------------
\* State
\* ---------------------------------------------------------------------
VARIABLES
    r_s,      \* global float r_s     (Schwarzschild radius), milli
    r_ph,     \* global float r_ph    (photon sphere radius), milli
    b_crit,   \* global float b_crit  (critical impact parameter), milli
    build,    \* what the GLSL build yields where the language leaves it undefined
    px        \* the fragment shader invocations, one record per invocation

vars == <<r_s, r_ph, b_crit, build, px>>

IsNaN(x) == x = NaN
IsNaN3(v) == v[1] = NaN \/ v[2] = NaN \/ v[3] = NaN
Zero3 == <<0, 0, 0>>

\* normalize(v); the result for the zero vector is undefined in GLSL
normalize(v) ==
    IF IsNaN3(v) THEN NaN3
    ELSE IF v = Zero3
         THEN (IF build.normalizeZero = "nan" THEN NaN3 ELSE Zero3)
         ELSE UnitOf(v)

\* pow(x, 2.0), x in milli; the result for x < 0 is undefined in GLSL
pow2(x) ==
    IF x < 0 /\ build.powNegative = "nan" THEN NaN
    ELSE DivR(x * x, Q)

\* mix(a, b, t) on one channel
mix1(a, b, t) ==
    IF IsNaN(a) \/ IsNaN(b) \/ IsNaN(t) THEN NaN
    ELSE DivR(a * (Q - t) + b * t, Q)
mix3(a, b, t) == <<mix1(a[1], b[1], t), mix1(a[2], b[2], t), mix1(a[3], b[3], t)>>

\* smoothstep(edge0, edge1, x), as t*t*(3 - 2t) of the clamped ratio
smoothstep(edge0, edge1, x) ==
    IF IsNaN(x) THEN NaN
    ELSE LET num == IF edge1 > edge0 THEN x - edge0 ELSE edge0 - x
             den == Abs(edge1 - edge0)
             t == Clamp(SDiv(num * Q, den), 0, Q)
         IN  DivR(DivR(t * t, Q) * (3 * Q - 2 * t), Q)

\* ---------------------------------------------------------------------
\* Shader functions of src/unnamed/part_000 (integrated variant)
\* ---------------------------------------------------------------------
sphereSDF(p, center, radius) ==
    IF IsNaN3(p) THEN NaN
    ELSE Length(<<p[1] - center[1], p[2] - center[2], p[3] - center[3]>>) - radius

sceneSDF(p) == sphereSDF(p, Zero3, r_s)

\* impact parameter of the ray O + t D, in micro (O and D in milli)
calcb(O, D) == Length(Cross(O, D))

\* Rodrigues rotation of v about the unit axis by ang (milli-radian)
\* v*c + cross(axis, v)*s + axis*dot(axis, v)*(1 - c), c and s in milli
RodriguesSum(v, axis, c, s) ==
    LET axv == Cross(axis, v)
        k == DivR(DivR(Dot(axis, v), Q) * (Q - c), Q)
    IN  <<DivR(v[1] * c, Q) + DivR(DivR(axv[1], Q) * s, Q) + DivR(axis[1] * k, Q),
          DivR(v[2] * c, Q) + DivR(DivR(axv[2], Q) * s, Q) + DivR(axis[2] * k, Q),
          DivR(v[3] * c, Q) + DivR(DivR(axv[3], Q) * s, Q) + DivR(axis[3] * k, Q)>>
rotateRodrigues(v, axis, ang) == RodriguesSum(v, axis, Cos(ang), Sin(ang))

\* b in micro, rs and bc in milli; result in milli-radian
deflectionAngleStable(b, rs, bc) ==
    LET weak == (2 * rs * QQ) \div Max(b, 1)
        distToCrit == SDiv(b - bc * Q, Q)
        scale == DivR(80 * bc, Q)
        ratio == DivR(Min(Abs(distToCrit), 5000) * Q, scale)
        nearFactor == Q + 3 * ExpNeg(DivR(ratio * ratio, Q))
        raw == DivR(Min(weak, 500000) * nearFactor, Q)
        saturated == Atan(raw) * 2
    IN  Clamp(saturated, 0, 6000)

\* b in micro; a colour in milli, or NaN3 where pow is undefined
computeLensedColor(b) ==
    LET normalized == DivR(b, b_crit)
        sq1 == pow2(normalized - Q)
        sq2 == pow2(normalized - DivR(r_ph * Q, b_crit))
        baseColor == <<1000, 800, 600>>
        redshift == <<900, 450, 250>>
        color == mix3(baseColor, redshift, smoothstep(1000, 300, normalized))
    IN  IF IsNaN(sq1) \/ IsNaN(sq2) THEN NaN3
        ELSE LET intensity == ExpNeg(Min(sq1, 20000) * 12)
                 phBoost == ExpNeg(Min(sq2, 20000) * 50)
             IN  VScale(color, intensity + DivR(600 * phBoost, Q))

MAX_ORDERS == 5
TWO_PI == TWO_PI_MILLI

\* (a * b) mod n without leaving 32 bits, 0 <= a < n <= 1000000, 0 <= b < 100000
MulMod(a, b, n) == (((a * (b \div 100)) % n) * 100 + a * (b % 100)) % n

\* hash21(p), p in milli and >= 0; the result counts 1/10000
hash21(p) ==
    LET fx == MulMod(p[1] % 100000, 12334, 100000) \div 100
        fy == MulMod(p[2] % 100000, 34545, 100000) \div 100
        d == DivR(fx * (fx + 34345), Q) + DivR(fy * (fy + 34345), Q)
    IN  MulMod(fx + d, fy + d, 1000000) \div 100

RECURSIVE PowMilli(_, _)
PowMilli(x, n) == IF n = 0 THEN Q ELSE DivR(x * PowMilli(x, n - 1), Q)

\* skyColor(dir): base gradient plus the hashed star term, in milli
\* lines 102-103: the gradient
skyBase(dir) == mix3(<<20, 20, 60>>, <<150, 250, 500>>, DivR(dir[2] + Q, 2))
\* line 105: uv of the direction, in milli
skyUV(dir) ==
    <<SDiv((IF dir[1] = 0 /\ dir[3] = 0 THEN 0 ELSE Atan2(dir[3], dir[1])) * Q, TWO_PI) + 500,
      SDiv(Asin(Clamp(dir[2], -Q, Q)) * Q, PI_MILLI) + 500>>
\* lines 106-107: the star term at uv
skyStar(uv) ==
    LET cell == <<((Max(uv[1], 0) * 1024) \div Q) * Q, ((Max(uv[2], 0) * 1024) \div Q) * Q>>
        fine == <<Max(uv[1], 0) * 4321, Max(uv[2], 0) * 4321>>
    IN  IF hash21(cell) >= 9995 THEN PowMilli(hash21(fine) \div 10, 10) ELSE 0
\* line 109: base + vec3(star)
skySum(base, star) == <<base[1] + star, base[2] + star, base[3] + star>>
skyColor(dir) ==
    IF IsNaN3(dir) THEN NaN3 ELSE skySum(skyBase(dir), skyStar(skyUV(dir)))

\* b in micro; result in milli-radian
deflectionAngleApprox(b, rs, bc) ==
    LET dist == Clamp(SDiv(b - bc * Q, Q), -5000, 5000)
        rel == Clamp(SDiv(dist * Q, DivR(200 * bc, Q)), -5000, 5000)
        inv == QQ \div (DivR(rel * rel, Q) + 1)
    IN  Clamp(DivR(inv * DivR(250 * rs, Q), Q), 0, 20000)

rotateAroundAxis(v, axis, ang) == rotateRodrigues(v, axis, ang)

\* line 144: abs((b - b_crit) / (0.1 * b_crit)), in milli
LensCloseArg(b) == DivR(Abs(SDiv(b - b_crit * Q, Q)) * Q, DivR(100 * b_crit, Q))
\* lines 143-145: the weight of order n, exp(-4n) times the closeness
LensWeight(n, b) == FloatMul(ExpNegFloat(n * 4000), ExpNegFloat(LensCloseArg(b)))
\* lines 147-148: the sample in the bent direction
LensSample(alphaN, weight, bent) ==
    [alphaN |-> alphaN, weight |-> weight, bent |-> bent, sample |-> skyColor(bent)]
\* the order n taken as n half turns about the hole
LensOrderHalfTurns(n, Dn, axis, baseAlpha, b) ==
    LensSample(baseAlpha + n * PI_MILLI, LensWeight(n, b),
               rotateAroundAxis(Dn, axis, baseAlpha + n * PI_MILLI))
\* one order of the lensed-image loop: the sample and its weight
LensOrder(n, Dn, axis, baseAlpha, b) ==
    LensSample(baseAlpha + n * TWO_PI, LensWeight(n, b),
               rotateAroundAxis(Dn, axis, baseAlpha + n * TWO_PI))

\* accum and totalWeight after a sample of weight mantissa w at exponent e
LensAddAt(acc, sample, w, e) ==
    [accum |-> <<acc.accum[1] + sample[1] * w,
                 acc.accum[2] + sample[2] * w,
                 acc.accum[3] + sample[3] * w>>,
     totalWeight |-> acc.totalWeight + w, e |-> e]
\* lines 150-151: accum += sample * weight; totalWeight += weight; the sums
\* keep the exponent of the first weight, the largest of the six
LensAdd(acc, o) ==
    IF acc.totalWeight = 0
    THEN LensAddAt(acc, o.sample, o.weight.m, o.weight.e)
    ELSE LensAddAt(acc, o.sample, FloatAt(o.weight, acc.e), acc.e)

\* the loop "for (int n = 0; n <= MAX_ORDERS; ++n)": accum and totalWeight
RECURSIVE LensLoop(_, _, _, _, _, _)
LensLoop(n, acc, Dn, axis, baseAlpha, b) ==
    IF n > MAX_ORDERS THEN acc
    ELSE LensLoop(n + 1, LensAdd(acc, LensOrder(n, Dn, axis, baseAlpha, b)),
                  Dn, axis, baseAlpha, b)

\* line 154: the weighted mean, or the unbent sky when nothing was weighted
LensMean(r, Dn) ==
    IF r.totalWeight > 0
    THEN <<DivR(r.accum[1], r.totalWeight),
           DivR(r.accum[2], r.totalWeight),
           DivR(r.accum[3], r.totalWeight)>>
    ELSE skyColor(Dn)

\* lines 134-154: the lensed images about the axis axisRaw / axisLen
LensImages(Dn, axisRaw, baseAlpha, b) ==
    LensMean(LensLoop(0, [accum |-> Zero3, totalWeight |-> 0, e |-> 0], Dn, UnitOf(axisRaw),
                      baseAlpha, b),
             Dn)

\* the body with the degenerate-axis fallback tested before b <= b_crit
LensedSkyAxisFirst(ro, Dn, b, baseAlpha) ==
    IF IsNaN3(Dn) THEN NaN3
    ELSE IF Length(Cross(Dn, ro)) < 1 THEN skyColor(Dn)
    ELSE IF b <= b_crit * Q THEN Zero3
    ELSE LensImages(Dn, Cross(Dn, ro), baseAlpha, b)

\* lines 127-154: sampleLensedSky after Dn = normalize(D) and the base angle
\* are fixed; b in micro
LensedSky(ro, Dn, b, baseAlpha) ==
    IF b <= b_crit * Q THEN Zero3
    ELSE IF IsNaN3(Dn) THEN NaN3
    ELSE IF Length(Cross(Dn, ro)) < 1 THEN skyColor(Dn)
    ELSE LensImages(Dn, Cross(Dn, ro), baseAlpha, b)

\* the sampler when its base angle is taken from the deflection of the march
sampleLensedSkyStable(ro, D, b) ==
    LensedSky(ro, normalize(D), b, deflectionAngleStable(b, r_s, b_crit))
sampleLensedSky(ro, D, b) ==
    LensedSky(ro, normalize(D), b, deflectionAngleApprox(b, r_s, b_crit))

\* ---------------------------------------------------------------------
\* Shader functions of src/README.md (pre-bend variant)
\* ---------------------------------------------------------------------
\* calcb(rayDirWorld) with the uniform cameraPos, in micro
calcbPre(cam, rayDirWorld) == Length(Cross(cam, normalize(rayDirWorld)))

angle(b) == deflectionAngleStable(b, r_s, b_crit)

calcDnew(D, axis, ang) ==
    IF IsNaN3(axis) \/ IsNaN3(D) THEN NaN3 ELSE rotateRodrigues(D, axis, ang)

computeLensedColorPre(b) ==
    LET normalized == DivR(b, b_crit)
        sq == pow2(normalized - Q)
        color == mix3(<<1000, 300, 0>>, <<1000, 800, 600>>, normalized)
    IN  IF IsNaN(sq) THEN NaN3
        ELSE VScale(color, ExpNeg(Min(sq, 20000) * 10))

sampleLensedSkyPre(ro, D, b) == LensedSky(ro, normalize(D), b, angle(b))

\* ---------------------------------------------------------------------
\* Inputs of one frame
\* ---------------------------------------------------------------------
\* largest side of the pixel grid
MaxSide == 5

Variants == {"integrated", "prebend"}
Evals == {1, 2}

\* what this build does with normalize(vec3(0)) and with pow(x, 2.0), x < 0
Builds == {[normalizeZero |-> "nan", powNegative |-> "nan"],
           [normalizeZero |-> "zero", powNegative |-> "square"]}

Resolutions == {<<3, 3>>, <<MaxSide, MaxSide>>, <<MaxSide, 3>>}
Pixels(res) == (0 .. res[1] - 1) \X (0 .. res[2] - 1)
Cameras == {<<0, 0, 5000>>, <<0, 0, 3000>>, <<0, 0, 1005>>, <<0, 0, 102000>>}

\* rotation part of the view-to-world transform: identity, a half turn and a
\* quarter turn about the y axis
ViewRot == [ident |-> <<<<1, 0, 0>>, <<0, 1, 0>>, <<0, 0, 1>>>>,
            back |-> <<<<-1, 0, 0>>, <<0, 1, 0>>, <<0, 0, -1>>>>,
            side |-> <<<<0, 0, 1>>, <<0, 1, 0>>, <<-1, 0, 0>>>>]
Views == DOMAIN ViewRot
Transpose3(m) == <<<<m[1][1], m[2][1], m[3][1]>>,
                   <<m[1][2], m[2][2], m[3][2]>>,
                   <<m[1][3], m[2][3], m[3][3]>>>>
\* (M * vec4(v, 0.0)).xyz
MatVec(m, v) == <<Dot(m[1], v), Dot(m[2], v), Dot(m[3], v)>>

Unwritten == <<-1, -1, -1, -1>>
NoBend == [applied |-> FALSE, skipped |-> FALSE, axisLen |-> 0, ang |-> 0,
           at |-> Zero3, from |-> Zero3, to |-> Zero3]
NoSky == [called |-> FALSE, ro |-> Zero3, D |-> Zero3, b |-> 0, result |-> Zero3]

Invocation(variant, cam, view, res, frag, pc) ==
    [variant |-> variant, cameraPos |-> cam, view |-> view, iResolution |-> res,
     gl_FragCoord |-> frag, pc |-> pc,
     rayDirWorld |-> Zero3, ro |-> Zero3, b |-> 0,
     t |-> 0, d |-> 0, hit |-> FALSE, p |-> Zero3, D |-> Zero3, O |-> Zero3, i |-> 0,
     FragColor |-> Unwritten, writes |-> 0,
     \* history of the evaluation, read by the properties only
     tested |-> FALSE, exit |-> "none", branch |-> "none", bend |-> NoBend, sky |-> NoSky]

Idle == Invocation("integrated", <<0, 0, 5000>>, "ident", <<3, 3>>, <<0, 0>>, "idle")

Init ==
    /\ r_s = 1000
    /\ r_ph = DivR(1500 * r_s, Q)
    /\ b_crit = DivR(2598 * r_s, Q)
    /\ build \in Builds
    /\ \E variant \in Variants, cam \in Cameras, view \in Views, res \in Resolutions :
         \E frag \in Pixels(res) :
            px = [e \in Evals |-> IF e = 1
                                   THEN Invocation(variant, cam, view, res, frag, "start")
                                   ELSE Idle]

\* ---------------------------------------------------------------------
\* main() of the integrated variant, src/unnamed/part_000 lines 160-253
\* ---------------------------------------------------------------------
\* the step budget taken from the number of lensing orders
MAX_STEPS_Short == MAX_ORDERS
MAX_STEPS == 500
MAX_DIST == 100000
MIN_STEP == 1
BEND_UPDATE_INTERVAL == 2000
\* the literal 0.001 of the capture test
HIT_EPS == 1

\* uv of the pixel centre: (gl_FragCoord.xy / iResolution) * 2 - 1, x scaled
\* by the aspect ratio
ScreenUV(frag, res) ==
    LET ux == DivR((2 * frag[1] + 1) * Q, res[1]) - Q
        uy == DivR((2 * frag[2] + 1) * Q, res[2]) - Q
    IN  <<SDiv(ux * res[1], res[2]), uy>>

\* normalize((invViewMatrix * vec4(normalize(vec3(uv, -1.0)), 0.0)).xyz)
WorldRay(frag, res, invView) ==
    LET uv == ScreenUV(frag, res)
        rayDirCam == normalize(<<uv[1], uv[2], -Q>>)
    IN  normalize(MatVec(invView, rayDirCam))

Others == UNCHANGED <<r_s, r_ph, b_crit, build>>

\* lines 168-181: the impact parameter and the march state for the ray dir
MainStart(s, dir) ==
    [s EXCEPT !.rayDirWorld = dir, !.ro = s.cameraPos,
              !.b = calcb(s.cameraPos, dir),
              !.t = 0, !.hit = FALSE, !.D = dir, !.O = s.cameraPos,
              !.i = 0, !.pc = "march"]

\* the setup when it also writes a first colour to the pixel
MainSetupWritesColour(e) ==
    /\ px[e].pc = "start"
    /\ px[e].variant = "integrated"
    /\ px' = [px EXCEPT ![e] =
                [MainStart(px[e], WorldRay(px[e].gl_FragCoord, px[e].iResolution,
                                           ViewRot[px[e].view]))
                 EXCEPT !.FragColor = <<0, 0, 0, 0>>, !.writes = px[e].writes + 1]]
    /\ Others

\* lines 162-184: ray setup, impact parameter, march state
MainSetup(e) ==
    /\ px[e].pc = "start"
    /\ px[e].variant = "integrated"
    /\ px' = [px EXCEPT ![e] =
                MainStart(px[e], WorldRay(px[e].gl_FragCoord, px[e].iResolution,
                                          ViewRot[px[e].view]))]
    /\ Others

\* the step taken with min in place of max
MarchStepSizeMin(d) == Min(d, MIN_STEP)
\* the step of one iteration, line 199
MarchStepSize(d) == Max(d, MIN_STEP)

\* lines 211-223: the clamped incremental angle of the bend at p, milli-radian
BendAngle(D, p) ==
    LET local_b == MulDiv(Length(Cross(p, D)), Q, Max(Length(D), 1))
        ang == deflectionAngleStable(local_b, r_s, b_crit)
        falloff == Clamp(DivR(r_ph * Q, Max(Length(p), 1)), 0, 4000)
    IN  Clamp(DivR(ang * falloff * 36, MAX_STEPS * Q), 0, 1200)

\* lines 208, 225: the rotation of D about axisRaw / axisLen, with its record
BendBy(D, p, axisRaw, incremental) ==
    [applied |-> TRUE, skipped |-> FALSE, axisLen |-> Length(axisRaw),
     ang |-> incremental, at |-> p, from |-> D,
     to |-> normalize(rotateRodrigues(D, UnitOf(axisRaw), incremental))]

\* lines 204-226: the direction after the bend at point p, with its record
BendAt(D, p) ==
    IF Length(Cross(D, p)) > 1
    THEN BendBy(D, p, Cross(D, p), BendAngle(D, p))
    ELSE [applied |-> FALSE, skipped |-> TRUE, axisLen |-> Length(Cross(D, p)),
          ang |-> 0, at |-> p, from |-> D, to |-> D]

\* the bend made in every iteration, the interval test left out
BendOfStepEvery(i, D, p) == BendAt(D, p)
\* lines 203-227: the bend of iteration i, made every BEND_UPDATE_INTERVAL steps
BendOfStep(i, D, p) ==
    IF i % Max(1, BEND_UPDATE_INTERVAL \div Q) = 0
    THEN BendAt(D, p)
    ELSE [NoBend EXCEPT !.at = p, !.from = D, !.to = D]

\* lines 192-193: the point and its distance, as the iteration tests them
MarchPoint(s, p, d) ==
    [s EXCEPT !.p = p, !.d = d, !.tested = s.tested \/ d < HIT_EPS]

\* lines 199-227 and the loop test of line 191: the step, the bend, ++i
MarchOn(s, bend) ==
    [s EXCEPT !.t = s.t + MarchStepSize(s.d),
              !.D = bend.to, !.bend = bend, !.i = s.i + 1,
              !.pc = IF s.i + 1 < MAX_STEPS THEN "march" ELSE "shade",
              !.exit = IF s.i + 1 < MAX_STEPS THEN "none" ELSE "exhausted"]

\* lines 195-227 on the tested point s.p with distance s.d, the distance
\* test made before the capture test
MainTestsDistanceFirst(s) ==
    IF s.t > MAX_DIST
    THEN [s EXCEPT !.pc = "shade", !.exit = "distance"]
    ELSE IF s.d < HIT_EPS
    THEN [s EXCEPT !.hit = TRUE, !.pc = "shade", !.exit = "capture"]
    ELSE MarchOn(s, BendOfStep(s.i, s.D, s.p))

\* lines 195-227 on the tested point s.p with distance s.d
MainTests(s) ==
    IF s.d < HIT_EPS
    THEN [s EXCEPT !.hit = TRUE, !.pc = "shade", !.exit = "capture"]
    ELSE IF s.t > MAX_DIST
    THEN [s EXCEPT !.pc = "shade", !.exit = "distance"]
    ELSE MarchOn(s, BendOfStep(s.i, s.D, s.p))

\* lines 191-228: one iteration of the march loop, the loop test included
MainIteration(s) ==
    MainTests(MarchPoint(s, VAdd(s.O, VScale(s.D, s.t)),
                         sceneSDF(VAdd(s.O, VScale(s.D, s.t)))))

\* the iteration when the shader also overwrites the global r_s
MainMarchWritesGlobal(e) ==
    /\ px[e].pc = "march"
    /\ px[e].variant = "integrated"
    /\ px' = [px EXCEPT ![e] = MainIteration(px[e])]
    /\ r_s' = 900
    /\ UNCHANGED <<r_ph, b_crit, build>>

MainMarch(e) ==
    /\ px[e].pc = "march"
    /\ px[e].variant = "integrated"
    /\ px' = [px EXCEPT ![e] = MainIteration(px[e])]
    /\ Others

\* vec4(c, 1.0)
Opaque(c) == <<c[1], c[2], c[3], 1000>>

\* line 244: exp(-pow((b - b_crit) / (0.03 * b_crit), 2.0)), b in micro
RingProximity(b) ==
    LET x == Clamp(SDiv(SDiv(b - b_crit * Q, Q) * Q, DivR(30 * b_crit, Q)),
                   -20000, 20000)
        sq == pow2(x)
    IN  IF IsNaN(sq) THEN NaN ELSE ExpNeg(sq)

\* line 248: mix(bg, ringColor, smoothstep(0.0, 0.85, ringProximity))
RingOverlay(bg, ringColor, ringProximity) ==
    IF IsNaN3(bg) \/ IsNaN3(ringColor) \/ IsNaN(ringProximity)
    THEN NaN3
    ELSE mix3(bg, ringColor, smoothstep(0, 850, ringProximity))

\* lines 241-250: the escaped branch with the background bg
ShadeEscaped(s, bg) ==
    [s EXCEPT !.rayDirWorld = s.D,
              !.sky = [called |-> TRUE, ro |-> s.cameraPos, D |-> s.D,
                       b |-> s.b, result |-> bg],
              !.FragColor = Opaque(RingOverlay(bg, computeLensedColor(s.b),
                                               RingProximity(s.b))),
              !.writes = s.writes + 1, !.branch = "escaped", !.pc = "done"]

\* shading that gives a captured ray the lensing colour, as an earlier
\* variant of the shader does
MainShadingLensOnHit(s) ==
    IF s.hit
    THEN [s EXCEPT !.rayDirWorld = s.D, !.FragColor = Opaque(computeLensedColor(s.b)),
                   !.writes = s.writes + 1, !.branch = "captured", !.pc = "done"]
    ELSE ShadeEscaped(s, sampleLensedSky(s.cameraPos, s.D, s.b))

\* lines 230-252: shading
MainShading(s) ==
    IF s.hit
    THEN [s EXCEPT !.rayDirWorld = s.D, !.FragColor = <<0, 0, 0, 1000>>,
                   !.writes = s.writes + 1, !.branch = "captured", !.pc = "done"]
    ELSE ShadeEscaped(s, sampleLensedSky(s.cameraPos, s.D, s.b))

MainShade(e) ==
    /\ px[e].pc = "shade"
    /\ px[e].variant = "integrated"
    /\ px' = [px EXCEPT ![e] = MainShading(px[e])]
    /\ Others

\* ---------------------------------------------------------------------
\* main() of the pre-bend variant, src/README.md lines 230-289
\* ---------------------------------------------------------------------
FLess(a, b) == ~IsNaN(a) /\ ~IsNaN(b) /\ a < b
FAdd(a, b) == IF IsNaN(a) \/ IsNaN(b) THEN NaN ELSE a + b

\* lines 239-242: the impact parameter of the ray dir
PreStart(s, dir) ==
    [s EXCEPT !.rayDirWorld = dir, !.ro = s.cameraPos,
              !.b = calcbPre(s.cameraPos, dir), !.pc = "bend"]

\* lines 232-242; inverse(viewMatrix) of a rotation is its transpose
PreSetup(e) ==
    /\ px[e].pc = "start"
    /\ px[e].variant = "prebend"
    /\ px' = [px EXCEPT ![e] =
                PreStart(px[e], WorldRay(px[e].gl_FragCoord, px[e].iResolution,
                                         Transpose3(ViewRot[px[e].view])))]
    /\ Others

\* lines 248-251: cross(rayDirWorld, R), R the point of the ray nearest the hole
PreAxisRaw(cam, dir) ==
    LET denom == Dot(dir, dir)
        cd == Dot(cam, dir)
        line == IF cd <= 0 THEN MulDiv(-cd, Q, denom) ELSE -MulDiv(cd, Q, denom)
    IN  Cross(dir, VAdd(cam, VScale(dir, line)))

\* lines 253-262: the bent direction and the march state, with the bend's record
PreBent(s, axisLen, ang, Dnew) ==
    [s EXCEPT !.rayDirWorld = Dnew, !.t = 0, !.hit = FALSE, !.i = 0, !.pc = "march",
              !.bend = [applied |-> TRUE, skipped |-> FALSE,
                        axisLen |-> axisLen, ang |-> ang,
                        at |-> s.cameraPos, from |-> s.rayDirWorld, to |-> Dnew]]

\* lines 251-253: the rotation about normalize(axisRaw) by ang
PreBendBy(s, axisRaw, ang) ==
    PreBent(s, Length(axisRaw), ang,
            normalize(calcDnew(s.rayDirWorld, normalize(axisRaw), ang)))

\* lines 247-262: the single bend before the march
PreBending(s) ==
    IF s.b <= b_crit * 5 * Q
    THEN PreBendBy(s, PreAxisRaw(s.cameraPos, s.rayDirWorld), angle(s.b))
    ELSE [s EXCEPT !.t = 0, !.hit = FALSE, !.i = 0, !.pc = "march"]

PreBend(e) ==
    /\ px[e].pc = "bend"
    /\ px' = [px EXCEPT ![e] = PreBending(px[e])]
    /\ Others

\* line 265: p = ro + rayDirWorld * t
PrePoint(s) ==
    IF IsNaN3(s.rayDirWorld) \/ IsNaN(s.t) THEN NaN3
    ELSE VAdd(s.ro, VScale(s.rayDirWorld, s.t))

\* lines 265-266: the point and its distance, as the iteration tests them
PreMarchPoint(s, p, d) ==
    [s EXCEPT !.p = p, !.d = d, !.tested = s.tested \/ FLess(d, HIT_EPS)]

\* lines 267-269 and the loop test of line 264, on the tested point
PreTests(s) ==
    IF FLess(s.d, HIT_EPS)
    THEN [s EXCEPT !.hit = TRUE, !.pc = "shade", !.exit = "capture"]
    ELSE IF FLess(100000, s.t)
    THEN [s EXCEPT !.pc = "shade", !.exit = "distance"]
    ELSE [s EXCEPT !.t = FAdd(s.t, s.d), !.i = s.i + 1,
                   !.pc = IF s.i + 1 < 500 THEN "march" ELSE "shade",
                   !.exit = IF s.i + 1 < 500 THEN "none" ELSE "exhausted"]

\* lines 264-270: one iteration of "for (int i = 0; i < 500; i++)"
PreIteration(s) == PreTests(PreMarchPoint(s, PrePoint(s), sceneSDF(PrePoint(s))))

PreMarch(e) ==
    /\ px[e].pc = "march"
    /\ px[e].variant = "prebend"
    /\ px' = [px EXCEPT ![e] = PreIteration(px[e])]
    /\ Others

\* lines 286-287: the escaped branch with the background bg
PreEscaped(s, bg) ==
    [s EXCEPT !.sky = [called |-> TRUE, ro |-> s.cameraPos, D |-> s.rayDirWorld,
                       b |-> s.b, result |-> bg],
              !.FragColor = Opaque(bg),
              !.writes = s.writes + 1, !.branch = "escaped", !.pc = "done"]

\* lines 275-288: shading
PreShading(s) ==
    IF s.hit
    THEN IF s.b <= b_crit * Q
         THEN [s EXCEPT !.FragColor = <<0, 0, 0, 1000>>, !.writes = s.writes + 1,
                        !.branch = "captured", !.pc = "done"]
         ELSE [s EXCEPT !.FragColor = Opaque(computeLensedColorPre(s.b)),
                        !.writes = s.writes + 1, !.branch = "lens", !.pc = "done"]
    ELSE PreEscaped(s, sampleLensedSkyPre(s.cameraPos, s.rayDirWorld, s.b))

PreShade(e) ==
    /\ px[e].pc = "shade"
    /\ px[e].variant = "prebend"
    /\ px' = [px EXCEPT ![e] = PreShading(px[e])]
    /\ Others

Next ==
    \E e \in Evals :
        \/ MainSetup(e)
        \/ MainMarch(e)
        \/ MainShade(e)
        \/ PreSetup(e)
        \/ PreBend(e)
        \/ PreMarch(e)
        \/ PreShade(e)

Spec == Init /\ [][Next]_vars

\* some invocation has started and not yet written its colour
Running == \E e \in Evals : px[e].pc \notin {"done", "idle"}

\* an invocation that has started runs to its end: weak fairness of Next,
\* WF_vars(Next), with ENABLED <<Next>>_vars written out as the state
\* predicate Running (every step of Next changes pc or i)
FairSpec == Spec /\ ([]<>(~Running) \/ []<><<Next>>_vars)

\* ---------------------------------------------------------------------
\* Two invocations of the integrated variant running interleaved
\* ---------------------------------------------------------------------
ParCameras == {<<0, 0, 5000>>, <<0, 0, 1005>>}
ParResolution == <<3, 3>>

InitPar ==
    /\ r_s = 1000
    /\ r_ph = DivR(1500 * r_s, Q)
    /\ b_crit = DivR(2598 * r_s, Q)
    /\ build \in Builds
    /\ \E cam \in ParCameras :
         \E f1 \in Pixels(ParResolution), f2 \in Pixels(ParResolution) :
            px = [e \in Evals |->
                    Invocation("integrated", cam, "ident", ParResolution,
                               IF e = 1 THEN f1 ELSE f2, "start")]

NextPar ==
    \E e \in Evals :
        \/ MainSetup(e)
        \/ MainMarch(e)
        \/ MainShade(e)

SpecPar == InitPar /\ [][NextPar]_vars

\* ---------------------------------------------------------------------
\* Properties
\* ---------------------------------------------------------------------
Black == <<0, 0, 0, 1000>>
Finished(s) == s.pc = "done"
LoopLeft(s) == s.pc \in {"shade", "done"}

CosToCentre(D, p) == DivR(-Dot(D, p), Max(Length(p), 1))

\* C2: every bend with a non-zero angle turns the direction toward the hole's
\* centre: the angle between the direction and the vector from the ray point
\* to the origin does not grow (two milli of rounding allowed).
C2_BendTowardCentre ==
    \A e \in Evals :
        LET bd == px[e].bend
        IN  bd.applied /\ bd.ang > 0 /\ ~IsNaN3(bd.to)
            => CosToCentre(bd.to, bd.at) >= CosToCentre(bd.from, bd.at) - 2

\* the march loop is bounded by 500 iterations and ends for one of its three reasons
C3_Bounded ==
    \A e \in Evals :
        LET s == px[e]
        IN  /\ s.i <= 500
            /\ s.pc = "march" => s.i < 500
            /\ LoopLeft(s) => /\ s.exit \in {"capture", "distance", "exhausted"}
                              /\ s.exit = "exhausted" => s.i = 500
            /\ Finished(s) => s.writes = 1
AllFinished == \A e \in Evals : px[e].pc \in {"done", "idle"}
\* C3: for every camera position, ray direction and resolution the march loop
\* ends after at most 500 iterations, whether or not the capture test or the
\* distance test fires, and a colour is then written.
C3_TerminatesWithin500 == [](C3_Bounded) /\ <>(AllFinished)
\* a march that used all 500 iterations without either test firing, and its colour
C3_Witness ==
    \E e \in Evals : /\ Finished(px[e]) /\ px[e].exit = "exhausted"
                     /\ px[e].i = 500 /\ px[e].writes = 1

\* C4: every ray of a camera outside the horizon with b <= b_crit ends the
\* march captured, so sampleLensedSky is never called with b <= b_crit.
C4_BelowCriticalCaptured ==
    \A e \in Evals :
        LET s == px[e]
        IN  s.variant = "integrated" =>
            /\ LoopLeft(s) /\ s.b <= b_crit * Q /\ Length(s.cameraPos) > r_s => s.hit
            /\ s.sky.called => s.sky.b > b_crit * Q

\* C5: sampleLensedSky returns exactly (0,0,0) whenever b <= b_crit, also when
\* the rotation axis is degenerate.
C5_BelowCriticalSkyIsBlack ==
    \A e \in Evals :
        px[e].sky.called /\ px[e].sky.b <= b_crit * Q => px[e].sky.result = Zero3
\* a call with b <= b_crit whose axis cross(Dn, ro) has length below 1e-6
C5_Witness ==
    \E e \in Evals :
        LET k == px[e].sky
        IN  /\ k.called /\ k.b <= b_crit * Q /\ ~IsNaN3(k.D)
            /\ Length(Cross(normalize(k.D), k.ro)) < 1
            /\ k.result = Zero3

\* C6: every pixel evaluation writes exactly one colour, with alpha 1, on
\* every path; nothing is written before the shading.
C6_OneOpaqueColour ==
    \A e \in Evals :
        LET s == px[e]
        IN  /\ s.writes <= 1
            /\ Finished(s) => s.writes = 1 /\ s.FragColor[4] = 1000
            /\ ~Finished(s) => s.writes = 0 /\ s.FragColor = Unwritten
\* an escaped ray (distance test) of the integrated variant has its colour
C6_Witness ==
    \E e \in Evals : /\ Finished(px[e]) /\ px[e].variant = "integrated"
                     /\ px[e].exit = "distance" /\ px[e].branch = "escaped"
                     /\ px[e].writes = 1 /\ px[e].FragColor[4] = 1000

SameInputs(a, b) ==
    /\ a.gl_FragCoord = b.gl_FragCoord /\ a.iResolution = b.iResolution
    /\ a.cameraPos = b.cameraPos /\ a.view = b.view /\ a.variant = b.variant
\* C7: two evaluations with the same pixel, resolution, camera position and
\* view matrix end with the same colour, however they are interleaved.
C7_SameInputsSameColour ==
    \A e1 \in Evals, e2 \in Evals :
        Finished(px[e1]) /\ Finished(px[e2]) /\ SameInputs(px[e1], px[e2])
        => px[e1].FragColor = px[e2].FragColor
\* two finished evaluations of one pixel that marched and sampled the sky
C7_Witness ==
    /\ Finished(px[1]) /\ Finished(px[2]) /\ SameInputs(px[1], px[2])
    /\ px[1].i > 2 /\ px[1].sky.called /\ px[1].FragColor = px[2].FragColor

\* C8: wherever the rotation axis is a normalised cross product, an axis
\* shorter than 1e-6 is detected first and the rotation is skipped: the
\* direction stays as it was, or skyColor(Dn) is returned unaccumulated.
C8_DegenerateAxisSkipped ==
    \A e \in Evals :
        LET bd == px[e].bend
            k == px[e].sky
        IN  /\ (bd.applied \/ bd.skipped) /\ bd.axisLen < 1 => bd.to = bd.from
            /\ k.called /\ k.b > b_crit * Q /\ ~IsNaN3(k.D)
               /\ Length(Cross(normalize(k.D), k.ro)) < 1
               => k.result = skyColor(normalize(k.D))

\* C9: the march is classified captured exactly when some iteration tested a
\* point with sceneSDF(p) < 0.001 (the capture test comes first in an
\* iteration); leaving by distance and leaving by exhaustion both leave
\* hit = false and take the escaped branch.
C9_CapturedIffTested ==
    \A e \in Evals :
        LET s == px[e]
        IN  /\ s.hit <=> s.tested
            /\ s.hit <=> s.exit = "capture"
            /\ Finished(s) /\ s.exit \in {"distance", "exhausted"}
               => s.branch = "escaped" /\ s.sky.called
\* a capture made in an iteration where t is already beyond the maximum distance
C9_Witness ==
    \E e \in Evals : /\ Finished(px[e]) /\ px[e].variant = "integrated"
                     /\ px[e].hit /\ px[e].t > 100000 /\ px[e].d < 1

\* C10: in the integrated march t starts at 0, a non-terminal iteration adds
\* exactly max(sceneSDF(p), 0.001) to it, and nothing else changes it.
C10_StepIsMaxOfSdf ==
    [][\A e \in Evals :
         LET s == px[e]
             n == px'[e]
         IN  s.variant = "integrated" =>
             /\ s.pc = "start" => n.t = 0
             /\ n.i = s.i + 1 => /\ n.p = VAdd(s.O, VScale(s.D, s.t))
                                 /\ n.d = Length(n.p) - 1000
                                 /\ n.t = s.t + (IF n.d > 1 THEN n.d ELSE 1)
                                 /\ n.t >= s.t + 1
             /\ n.i # s.i + 1 => n.t = s.t]_vars
\* a march of several iterations whose last step was larger than the minimum
C10_Witness ==
    \E e \in Evals : /\ px[e].variant = "integrated" /\ px[e].pc = "march"
                     /\ px[e].i >= 3 /\ px[e].t > 0 /\ px[e].d > 1

\* C11: during the integrated march D changes only in a non-terminal
\* iteration with even index i whose axis cross(D, p) is longer than 1e-6;
\* the new D is then the renormalised rotation of D about that axis by an
\* increment within [0, 1.2] radians; in every other iteration D stays, and
\* O and b_global never change.
C11_BendOnlyOnEvenSteps ==
    [][\A e \in Evals :
         LET s == px[e]
             n == px'[e]
         IN  s.variant = "integrated" /\ s.pc = "march" =>
             /\ n.O = s.O
             /\ n.b = s.b
             /\ n.D # s.D =>
                   /\ n.i = s.i + 1
                   /\ s.i % 2 = 0
                   /\ Length(Cross(s.D, n.p)) > 1
                   /\ n.bend.ang >= 0 /\ n.bend.ang <= 1200
                   /\ n.D = normalize(rotateRodrigues(s.D, UnitOf(Cross(s.D, n.p)),
                                                      n.bend.ang))
                   /\ Abs(Length(n.D) - Q) <= 2
             /\ (n.i # s.i + 1 \/ s.i % 2 # 0 \/ Length(Cross(s.D, n.p)) <= 1)
                   => n.D = s.D]_vars
\* a march that was bent in an even iteration after an odd one had left D alone
C11_Witness ==
    \E e \in Evals :
        LET s == px[e]
        IN  /\ s.variant = "integrated" /\ s.pc = "march" /\ s.i >= 3 /\ s.i % 2 = 1
            /\ s.bend.applied /\ s.bend.ang > 0 /\ s.bend.ang <= 1200
            /\ s.bend.to # s.bend.from /\ s.D = s.bend.to

\* a call of sampleLensedSky that reaches the loop over the lensed orders
SkyLensed(k) ==
    /\ k.called /\ k.b > b_crit * Q /\ ~IsNaN3(k.D)
    /\ Length(Cross(normalize(k.D), k.ro)) >= 1
\* the weight exp(-4n) * exp(-|b - b_crit| / (0.1 * b_crit)) of order n, as the
\* mantissa it has beside the weight of order 0
OrderWeight(n, b) ==
    FloatAt(FloatMul(ExpNegFloat(4000 * n),
                     ExpNegFloat(DivR(Abs(SDiv(b - b_crit * Q, Q)) * Q,
                                      DivR(100 * b_crit, Q)))),
            DivR(Abs(SDiv(b - b_crit * Q, Q)) * Q, DivR(100 * b_crit, Q)) \div Q)
\* the six orders n = 0..5 with the angles theta + n*2*pi: sample and weight
SixOrders(Dn, axis, theta, b) ==
    [n \in 0 .. 5 |->
        [s |-> skyColor(rotateAroundAxis(Dn, axis, theta + n * TWO_PI_MILLI)),
         w |-> OrderWeight(n, b)]]
SumW(t) == t[0].w + t[1].w + t[2].w + t[3].w + t[4].w + t[5].w
SumS(t, c) ==
    t[0].s[c] * t[0].w + t[1].s[c] * t[1].w + t[2].s[c] * t[2].w
    + t[3].s[c] * t[3].w + t[4].s[c] * t[4].w + t[5].s[c] * t[5].w
\* the weight-normalised mean of the orders t, or fallback when no weight is left
WeightedMean(t, fallback) ==
    IF SumW(t) > 0
    THEN <<DivR(SumS(t, 1), SumW(t)), DivR(SumS(t, 2), SumW(t)), DivR(SumS(t, 3), SumW(t))>>
    ELSE fallback
\* what the call k returns when its orders start from the angle theta
LensedMeanWith(k, theta) ==
    WeightedMean(SixOrders(normalize(k.D), UnitOf(Cross(normalize(k.D), k.ro)), theta, k.b),
                 skyColor(normalize(k.D)))

\* C12 as stated: for b > b_crit and a non-degenerate axis sampleLensedSky
\* takes alpha_n = theta(b) + n*2*pi with theta the deflection model of the
\* march, at most 6 radians, and returns the mean of the six samples weighted
\* by exp(-4n) * exp(-|b - b_crit| / (0.1 * b_crit)).
C12_OrdersFromMarchDeflection ==
    \A e \in Evals :
        LET k == px[e].sky
        IN  SkyLensed(k) =>
            /\ deflectionAngleStable(k.b, r_s, b_crit) <= 6000
            /\ k.result = LensedMeanWith(k, deflectionAngleStable(k.b, r_s, b_crit))

\* C12 amended: the angles are alpha_n = theta(b) + n*2*pi with theta(b) the
\* sampler's own curve deflectionAngleApprox(b), within [0, 20] radians, in
\* the integrated shader, and the deflection model angle(b), at most 6
\* radians, in the pre-bend shader; the six samples are weighted by
\* exp(-4n) * exp(-|b - b_crit| / (0.1 * b_crit)).
C12_OrdersFromSamplerAngle ==
    \A e \in Evals :
        LET k == px[e].sky
        IN  SkyLensed(k) =>
            /\ px[e].variant = "integrated" =>
                  /\ deflectionAngleApprox(k.b, r_s, b_crit) >= 0
                  /\ deflectionAngleApprox(k.b, r_s, b_crit) <= 20000
                  /\ k.result = LensedMeanWith(k, deflectionAngleApprox(k.b, r_s, b_crit))
            /\ px[e].variant = "prebend" =>
                  /\ angle(k.b) >= 0 /\ angle(k.b) <= 6000
                  /\ k.result = LensedMeanWith(k, angle(k.b))
\* a call of the integrated shader near the critical impact parameter, where
\* the sampler's angle is above 6 radians and two orders carry weight
C12_Witness ==
    \E e \in Evals :
        LET k == px[e].sky
        IN  /\ SkyLensed(k) /\ px[e].variant = "integrated"
            /\ deflectionAngleApprox(k.b, r_s, b_crit) > 6000
            /\ OrderWeight(0, k.b) > 0 /\ OrderWeight(1, k.b) > 0
            /\ k.result # Zero3

\* the base angle alpha_0 of the sampler of the invocation s
SkyBaseAngle(s) ==
    IF s.variant = "integrated" THEN deflectionAngleApprox(s.sky.b, r_s, b_crit)
    ELSE angle(s.sky.b)
\* totalWeight of a call with impact parameter b
TotalWeight(b) ==
    OrderWeight(0, b) + OrderWeight(1, b) + OrderWeight(2, b)
    + OrderWeight(3, b) + OrderWeight(4, b) + OrderWeight(5, b)
\* every order bends Dn to the direction of order 0, and result is its sky colour
OrdersCoincide(Dn, axis, alpha0, result) ==
    /\ \A n \in 0 .. 5 :
          rotateAroundAxis(Dn, axis, alpha0 + n * TWO_PI_MILLI)
              = rotateAroundAxis(Dn, axis, alpha0)
    /\ result = skyColor(rotateAroundAxis(Dn, axis, alpha0))

====
